---- MODULE Spec2Model ----
(***************************************************************************)
(* Premium entitlement subsystem of src/Resume_Bot.py: key issuance        *)
(* (generate_key), key redemption (redeem_key), the durable snapshot       *)
(* (load_db / save_db) and the redemption rate limiter.                    *)
(*                                                                         *)
(* Scheduling.  The handlers are coroutines of one asyncio event loop and  *)
(* the application is built without concurrent update processing           *)
(* (run_bot, lines 1255-1260).  load_db and save_db are synchronous calls  *)
(* and no handler awaits between its load_db and its save_db (redeem_key   *)
(* lines 912-962, generate_key lines 869-871), so the store access of one  *)
(* handler run is one step and two simultaneous requests are two           *)
(* consecutive steps, in either order.                                     *)
(*                                                                         *)
(* Time is counted in ticks; a calendar day has TicksPerDay ticks and the  *)
(* first tick of a day is the instant of midnight.  A stored ISO date is   *)
(* represented by its day number.  The process starts at the last tick of  *)
(* day 0, so that the first tick that elapses is the midnight of day 1.    *)
(*                                                                         *)
(* The snapshot row outlives the process (init_db inserts it only when it  *)
(* is absent).  Spec is a run that starts on the empty snapshot,           *)
(* SpecStored one that starts on grants written by earlier runs,           *)
(* SpecCorrupt one that starts on a row whose stored dates do not parse,   *)
(* and SpecIssue is key generation alone over a wider range of durations.  *)
(* SpecSweep adds the task of security_monitor to the redemption requests  *)
(* and states the fairness of the event loop and of the clock; SpecWizard  *)
(* is the resume wizard (new_resume, get_name .. get_summary, cancel, the  *)
(* template buttons of button_handler, generate_resume and                 *)
(* generate_pdf_bytes).  Updates are processed one after the other, so a   *)
(* wizard handler, with the generate_resume call it makes, is one step.    *)
(*                                                                         *)
(* The module premium_security is imported (lines 36-45) but is not part   *)
(* of src/; its functions are modelled from spec.md sections 4.1 and 4.2.  *)
(***************************************************************************)
EXTENDS Integers, Sequences, FiniteSets, TLC

\* ---------------------------------------------------------------- bounds
MaxKeys == 1
MaxElapsed == 1
TicksPerDay == 2
MaxCount == 2

\* ------------------------------------------------------------- constants
MaxAttempts == 2
Cooldown == 1
DefaultDuration == 30
MaxDuration == 365

ADMIN_ID == "admin"
Subjects == {ADMIN_ID, "alice"}

KeyIds == 1..MaxKeys
Malformed == 0
Forged == 0 - 1
NoArg == 0 - 1
DurationArgs == {NoArg, 0}

EmptyMap == [x \in {} |-> 0]

VARIABLES dbKeys, dbUsers, attempts, lastAttempt, now, minted, redemptions, last,
          monitor, conv, user_data, keyboards

vars == <<dbKeys, dbUsers, attempts, lastAttempt, now, minted, redemptions, last,
          monitor, conv, user_data, keyboards>>

consumed == {k \in KeyIds : redemptions[k] > 0}

StartTick == TicksPerDay - 1

Today == now \div TicksPerDay

Min(a, b) == IF a < b THEN a ELSE b

Remove(f, k) == [x \in (DOMAIN f) \ {k} |-> f[x]]

Put(f, k, v) == [x \in (DOMAIN f) \cup {k} |-> IF x = k THEN v ELSE f[x]]

\* ------------------------------------------------ premium_security (spec)
ValidateKeyFormat(key) == key # Malformed

VerifyKeySignature(key) == key \in KeyIds

CheckRateLimitForever(user) == attempts[user] >= MaxAttempts

CheckRateLimit(user) ==
    /\ attempts[user] >= MaxAttempts
    /\ now - lastAttempt[user] < Cooldown

RecordAttemptShared(rl, user, success) ==
    IF success
    THEN [att |-> [rl.att EXCEPT ![user] = 0], la |-> rl.la]
    ELSE [att |-> [u \in DOMAIN rl.att |-> rl.att[u] + 1],
          la |-> [rl.la EXCEPT ![user] = now]]

RecordAttempt(rl, user, success) ==
    IF success
    THEN [att |-> [rl.att EXCEPT ![user] = 0], la |-> rl.la]
    ELSE [att |-> [rl.att EXCEPT ![user] = @ + 1], la |-> [rl.la EXCEPT ![user] = now]]

GenerateSecureKey(duration) ==
    [key |-> minted + 1, expiry |-> Today + Min(duration, MaxDuration)]

\* ----------------------------------------------------------- the store
LoadDb(res) ==
    IF res = "ok" THEN [keys |-> dbKeys, premium_users |-> dbUsers]
    ELSE [keys |-> EmptyMap, premium_users |-> EmptyMap]

ParseDate(expiry_date) ==
    IF expiry_date >= 0 THEN expiry_date * TicksPerDay ELSE 0 - 1

DateParsesAlways(expiry_date) == TRUE

DateParses(expiry_date) == expiry_date >= 0

IsExpiredFlipped(expiry_date) == ParseDate(expiry_date) > now

IsExpired(expiry_date) == ParseDate(expiry_date) < now

IsPremiumInclusive(user, res) ==
    LET db == LoadDb(res) IN
    /\ user \in DOMAIN db.premium_users
    /\ DateParses(db.premium_users[user])
    /\ ParseDate(db.premium_users[user]) >= now

IsPremium(user, res) ==
    LET db == LoadDb(res) IN
    /\ user \in DOMAIN db.premium_users
    /\ DateParses(db.premium_users[user])
    /\ ParseDate(db.premium_users[user]) > now

DurationUnclamped(arg) == IF arg = NoArg THEN DefaultDuration ELSE arg

Duration(arg) ==
    IF arg = NoArg THEN DefaultDuration
    ELSE IF arg > MaxDuration THEN MaxDuration ELSE arg

RedeemMutationKeepsKey(db, user, key) ==
    [keys |-> db.keys,
     premium_users |-> Put(db.premium_users, user, db.keys[key])]

RedeemMutation(db, user, key) ==
    [keys |-> Remove(db.keys, key),
     premium_users |-> Put(db.premium_users, user, db.keys[key])]

IssueMutation(db, key, expiry) ==
    [keys |-> Put(db.keys, key, expiry), premium_users |-> db.premium_users]

SaveDb(data, res) ==
    IF res = "ok" THEN data ELSE [keys |-> dbKeys, premium_users |-> dbUsers]

Stage(outcome, exc, load, save, rec, events) ==
    [outcome |-> outcome, exc |-> exc, load |-> load, save |-> save,
     rec |-> rec, events |-> events]

CommitStageNoReset(lr, sr) ==
    IF sr = "ok"
    THEN Stage("Success", "none", lr, "ok", "none", <<"key_redeemed">>)
    ELSE Stage("Error", "SaveError", lr, "raise", "none", <<>>)

CommitStageRecordsFirst(lr, sr) ==
    IF sr = "ok"
    THEN Stage("Success", "none", lr, "ok", "success", <<"key_redeemed">>)
    ELSE Stage("Error", "SaveError", lr, "raise", "success", <<>>)

CommitStage(lr, sr) ==
    IF sr = "ok"
    THEN Stage("Success", "none", lr, "ok", "success", <<"key_redeemed">>)
    ELSE Stage("Error", "SaveError", lr, "raise", "none", <<>>)

ExpiredStagePurges(lr) ==
    Stage("KeyExpired", "none", lr, "ok", "fail", <<"expired_key">>)

ExpiredStage(lr) ==
    Stage("KeyExpired", "none", lr, "none", "fail", <<"expired_key">>)

RedeemStages(user, args, lr, sr) ==
    LET db == LoadDb(lr)
        key == args[1]
    IN  IF CheckRateLimit(user)
        THEN Stage("Error", "NameError", "none", "none", "none", <<>>)
        ELSE IF Len(args) # 1
        THEN Stage("Usage", "none", "none", "none", "fail", <<>>)
        ELSE IF lr = "raise"
        THEN Stage("Error", "LoadError", "raise", "none", "none", <<>>)
        ELSE IF ~ValidateKeyFormat(key)
        THEN Stage("InvalidFormat", "none", lr, "none", "fail", <<"invalid_key_format">>)
        ELSE IF ~VerifyKeySignature(key)
        THEN Stage("InvalidSignature", "none", lr, "none", "fail", <<"invalid_key_signature">>)
        ELSE IF key \notin DOMAIN db.keys
        THEN Stage("KeyNotFound", "none", lr, "none", "fail", <<"invalid_key_attempt">>)
        ELSE IF ~DateParses(db.keys[key])
        THEN Stage("CorruptExpiry", "none", lr, "none", "fail", <<"invalid_expiry_format">>)
        ELSE IF IsExpired(db.keys[key])
        THEN ExpiredStage(lr)
        ELSE CommitStage(lr, sr)

Requestable == (1..minted) \cup {Malformed, Forged}

ArgLists ==
    {<<>>} \cup {<<k>> : k \in Requestable} \cup {<<Malformed, Malformed>>}

LoadResults == {"ok", "empty", "raise"}

SaveResults == {"ok", "raise"}

\* Messages to the administrator's chat caused by one handler run.  An
\* exception that leaves redeem_key or a handler of the resume wizard
\* reaches error_handler, which messages ADMIN_ID (lines 1009-1012).
\* generate_key catches every exception itself
\* (883-888) and only prints and answers the requester.  The alert inside
\* save_db (154-157) refers to a name that save_db does not have (context)
\* and is never sent.
Alerts(op, exc) ==
    IF op # "generate" /\ exc # "none" THEN <<"error_handler">> ELSE <<>>

NoOp ==
    [op |-> "none", user |-> ADMIN_ID, args |-> <<>>, load |-> "none", save |-> "none",
     outcome |-> "none", exc |-> "none", rec |-> "none", events |-> <<>>,
     alerts |-> <<>>]

\* What the process holds in memory when it has started: the task of
\* security_monitor created by post_init and about to run its first cycle,
\* no conversation in progress, the empty user_data dictionary and no
\* template keyboard sent to anybody.
MonitorStart == [pc |-> "run", delay |-> 0]

END == "END"

InitProcess ==
    /\ monitor = MonitorStart
    /\ conv = [u \in Subjects |-> END]
    /\ user_data = EmptyMap
    /\ keyboards = {}

Init ==
    /\ now = StartTick
    /\ dbKeys = EmptyMap
    /\ dbUsers = EmptyMap
    /\ attempts = [u \in Subjects |-> 0]
    /\ lastAttempt = [u \in Subjects |-> StartTick]
    /\ minted = 0
    /\ redemptions = [k \in KeyIds |-> 0]
    /\ last = NoOp
    /\ InitProcess

RedeemKey(user, args, lr, sr) ==
    /\ \E r \in {RedeemStages(user, args, lr, sr)} :
         \E key \in {IF Len(args) = 1 THEN args[1] ELSE Malformed} :
           /\ r.rec = "fail" => attempts[user] < MaxCount
           /\ r.load = "none" => lr = "ok"
           /\ r.save = "none" => sr = "ok"
           /\ \E db \in {IF r.save = "none"
                          THEN [keys |-> dbKeys, premium_users |-> dbUsers]
                          ELSE SaveDb(RedeemMutation(LoadDb(lr), user, key), r.save)} :
                /\ dbKeys' = db.keys
                /\ dbUsers' = db.premium_users
           /\ \E rl \in {IF r.rec = "none"
                          THEN [att |-> attempts, la |-> lastAttempt]
                          ELSE RecordAttempt([att |-> attempts, la |-> lastAttempt],
                                             user, r.rec = "success")} :
                /\ attempts' = rl.att
                /\ lastAttempt' = rl.la
           /\ redemptions' = IF r.outcome = "Success"
                              THEN [redemptions EXCEPT ![key] = @ + 1]
                              ELSE redemptions
           /\ last' = [op |-> "redeem", user |-> user, args |-> args,
                       load |-> r.load, save |-> r.save,
                       outcome |-> r.outcome, exc |-> r.exc,
                       rec |-> r.rec, events |-> r.events,
                       alerts |-> Alerts("redeem", r.exc)]
    /\ UNCHANGED <<now, minted, monitor, conv, user_data, keyboards>>

GenerateStagesNoAdminCheck(user, lr, sr) ==
    IF lr = "raise"
    THEN Stage("Failed", "LoadError", "raise", "none", "none", <<>>)
    ELSE IF sr = "ok"
    THEN Stage("Generated", "none", lr, "ok", "none", <<"key_generated">>)
    ELSE Stage("Failed", "SaveError", lr, "raise", "none", <<>>)

GenerateStages(user, lr, sr) ==
    IF user # ADMIN_ID
    THEN Stage("NotAuthorized", "none", "none", "none", "none", <<"unauthorized_key_generation">>)
    ELSE IF lr = "raise"
    THEN Stage("Failed", "LoadError", "raise", "none", "none", <<>>)
    ELSE IF sr = "ok"
    THEN Stage("Generated", "none", lr, "ok", "none", <<"key_generated">>)
    ELSE Stage("Failed", "SaveError", lr, "raise", "none", <<>>)

\* A key that generate_secure_key returned but save_db did not store is
\* shown to nobody (the reply of lines 875-882 is not reached); minted counts
\* the keys that were stored and shown.
GenerateKey(user, arg, lr, sr) ==
    /\ user = ADMIN_ID => minted < MaxKeys
    /\ user # ADMIN_ID => arg = NoArg
    /\ \E r \in {GenerateStages(user, lr, sr)} :
         \E g \in {GenerateSecureKey(Duration(arg))} :
           /\ r.load = "none" => lr = "ok"
           /\ r.save = "none" => sr = "ok"
           /\ \E db \in {IF r.save = "none"
                          THEN [keys |-> dbKeys, premium_users |-> dbUsers]
                          ELSE SaveDb(IssueMutation(LoadDb(lr), g.key, g.expiry), r.save)} :
                /\ dbKeys' = db.keys
                /\ dbUsers' = db.premium_users
           /\ minted' = IF r.outcome = "Generated" THEN g.key ELSE minted
           /\ last' = [op |-> "generate", user |-> user,
                       args |-> IF arg = NoArg THEN <<>> ELSE <<arg>>,
                       load |-> r.load, save |-> r.save,
                       outcome |-> r.outcome, exc |-> r.exc,
                       rec |-> r.rec, events |-> r.events,
                       alerts |-> Alerts("generate", r.exc),
                       duration |-> IF user = ADMIN_ID THEN Duration(arg) ELSE NoArg]
    /\ UNCHANGED <<attempts, lastAttempt, now, redemptions, monitor, conv, user_data, keyboards>>

AdvanceTime ==
    /\ now < StartTick + MaxElapsed
    /\ now' = now + 1
    /\ last' = NoOp
    /\ UNCHANGED <<dbKeys, dbUsers, attempts, lastAttempt, minted, redemptions,
                   monitor, conv, user_data, keyboards>>

Redeem == \E user \in Subjects, args \in ArgLists, lr \in LoadResults, sr \in SaveResults :
              RedeemKey(user, args, lr, sr)

Generate == \E user \in Subjects, arg \in DurationArgs, lr \in LoadResults, sr \in SaveResults :
                GenerateKey(user, arg, lr, sr)

Next == Redeem \/ Generate \/ AdvanceTime

Spec == Init /\ [][Next]_vars

\* A run that starts on grants written by earlier runs: alice's grant
\* expires on the day after the start, the administrator's outlasts every
\* key this run can issue.
PriorGrants ==
    [u \in Subjects |->
       IF u = "alice" THEN (StartTick \div TicksPerDay) + 1
       ELSE (StartTick \div TicksPerDay) + DefaultDuration + 1]

InitStored ==
    /\ now = StartTick
    /\ dbKeys = EmptyMap
    /\ dbUsers = PriorGrants
    /\ attempts = [u \in Subjects |-> 0]
    /\ lastAttempt = [u \in Subjects |-> StartTick]
    /\ minted = 0
    /\ redemptions = [k \in KeyIds |-> 0]
    /\ last = NoOp
    /\ InitProcess

SpecStored == InitStored /\ [][Next]_vars

\* A run that starts on a row whose stored dates do not parse: alice's grant
\* and the one outstanding key.
CorruptDate == 0 - 1

CorruptGrants == [u \in {"alice"} |-> CorruptDate]

CorruptKeys == [k \in {1} |-> CorruptDate]

InitCorrupt ==
    /\ now = StartTick
    /\ dbKeys = CorruptKeys
    /\ dbUsers = CorruptGrants
    /\ attempts = [u \in Subjects |-> 0]
    /\ lastAttempt = [u \in Subjects |-> StartTick]
    /\ minted = 1
    /\ redemptions = [k \in KeyIds |-> 0]
    /\ last = NoOp
    /\ InitProcess

SpecCorrupt == InitCorrupt /\ [][Next]_vars

\* Key generation alone, over durations on both sides of the clamp, in a
\* run that starts on the grants written by earlier runs.
IssueArgs ==
    {NoArg, 0, 1, DefaultDuration + 1, MaxDuration - 1, MaxDuration, MaxDuration + 1}

Issue == \E user \in Subjects, arg \in IssueArgs, lr \in LoadResults, sr \in SaveResults :
             GenerateKey(user, arg, lr, sr)

NextIssue == Issue \/ AdvanceTime

SpecIssue == InitStored /\ [][NextIssue]_vars

\* ------------------------------------------------------ security_monitor
\* security_monitor (line 1027) and the blocked branch of redeem_key (895)
\* read the name redeem_attempts.  It is not among the names imported from
\* premium_security (36-45) and no statement of the file binds it, so
\* reading it raises NameError.
RedeemAttemptsDefined == FALSE

SweepInterval == 300

SweepBackoff == 60

SuspiciousUsers == {u \in Subjects : attempts[u] >= MaxAttempts * 2}

\* The try block of one cycle; send is the result of bot.send_message.
MonitorCycle(send) ==
    IF ~RedeemAttemptsDefined
    THEN [exc |-> "NameError", selected |-> {}, alerts |-> <<>>]
    ELSE IF SuspiciousUsers = {}
    THEN [exc |-> "none", selected |-> {}, alerts |-> <<>>]
    ELSE IF send = "ok"
    THEN [exc |-> "none", selected |-> SuspiciousUsers, alerts |-> <<"security_alert">>]
    ELSE [exc |-> "SendError", selected |-> SuspiciousUsers, alerts |-> <<>>]

MonitorStopsOnError(exc) ==
    IF exc = "none"
    THEN [pc |-> "sleep", delay |-> SweepInterval]
    ELSE [pc |-> "done", delay |-> 0]

\* Where the loop goes after the try block: asyncio.sleep(300) at its end,
\* asyncio.sleep(60) in the except clause, and then the next iteration.
MonitorAfter(exc) ==
    [pc |-> "sleep", delay |-> IF exc = "none" THEN SweepInterval ELSE SweepBackoff]

SendResults == {"ok", "raise"}

SecurityMonitor(send) ==
    /\ monitor.pc = "run"
    /\ \E r \in {MonitorCycle(send)} :
         /\ r.selected = {} => send = "ok"
         /\ monitor' = MonitorAfter(r.exc)
         /\ last' = [op |-> "sweep", user |-> ADMIN_ID, args |-> <<>>,
                     load |-> "none", save |-> "none", outcome |-> "none",
                     exc |-> r.exc, rec |-> "none", events |-> <<>>,
                     alerts |-> r.alerts, selected |-> r.selected]
    /\ UNCHANGED <<dbKeys, dbUsers, attempts, lastAttempt, now, minted, redemptions,
                   conv, user_data, keyboards>>

\* asyncio.sleep returns and the loop starts its next iteration.
MonitorWakes ==
    /\ monitor.pc = "sleep"
    /\ monitor' = [pc |-> "run", delay |-> 0]
    /\ last' = NoOp
    /\ UNCHANGED <<dbKeys, dbUsers, attempts, lastAttempt, now, minted, redemptions,
                   conv, user_data, keyboards>>

Sweep == \E send \in SendResults : SecurityMonitor(send)

\* A run in which the administrator has issued one key with the default
\* duration and alice has recorded one failure more than twice the maximum,
\* the last of them at the start instant (failures recorded after a cooldown
\* has elapsed keep counting).  The monitor task runs next to the redemption
\* requests.  The event loop runs a task that is ready and a sleep ends, and
\* the clock advances while the run lasts.
IssuedKeys == [k \in {1} |-> (StartTick \div TicksPerDay) + DefaultDuration]

InitSweep ==
    /\ now = StartTick
    /\ dbKeys = IssuedKeys
    /\ dbUsers = EmptyMap
    /\ attempts = [u \in Subjects |-> IF u = "alice" THEN MaxAttempts * 2 + 1 ELSE 0]
    /\ lastAttempt = [u \in Subjects |-> StartTick]
    /\ minted = 1
    /\ redemptions = [k \in KeyIds |-> 0]
    /\ last = NoOp
    /\ InitProcess

NextSweep == Redeem \/ AdvanceTime \/ Sweep \/ MonitorWakes

SpecSweep ==
    /\ InitSweep
    /\ [][NextSweep]_vars
    /\ WF_vars(AdvanceTime)
    /\ WF_vars(Sweep)
    /\ WF_vars(MonitorWakes)

\* --------------------------------------------------------- resume wizard
\* The conversation of a user is the state ConversationHandler keeps for the
\* user's private chat; END is no conversation.  An entry of user_data is
\* represented by its template and by the number of the six text fields
\* (name, contact, education, experience, skills, summary) it lacks; its
\* user_id is the key it is stored under.  keyboards is the set of users to
\* whom the template keyboard was sent: its buttons stay in the chat and can
\* be pressed at any later time.
States == <<"NAME", "CONTACT", "EDUCATION", "EXPERIENCE", "SKILLS", "SUMMARY">>

Templates == {"BASIC", "MODERN", "CREATIVE", "MINIMALIST"}

NewEntry == [template |-> "BASIC", missing |-> 0]

\* The entry button_handler creates when there is none: {} with the template
\* and the user_id, and none of the text fields.
ButtonEntry(template) == [template |-> template, missing |-> Len(States)]

\* The user whose messages drive the wizard.  A handler reads and writes only
\* the conversation and the entry of the user it serves.
WizardUsers == {"alice"}

\* user_data[user_id][field] = update.message.text
SetField(entry) ==
    [entry EXCEPT !.missing = IF @ = 0 THEN 0 ELSE @ - 1]

NoRender == [selected |-> "none", template |-> "none", watermark |-> FALSE]

PdfFailed(exc) ==
    [exc |-> exc, selected |-> "none", template |-> "none", watermark |-> FALSE]

\* l1 and l2 are the results of the load_db calls of the two is_premium
\* calls, enc is the result of drawing and encoding the text (latin-1).
GeneratePdfBytes(data, user, l1, l2, enc) ==
    IF data.template # "BASIC" /\ l1 = "raise" THEN PdfFailed("LoadError")
    ELSE IF data.missing > 0 THEN PdfFailed("KeyError")
    ELSE IF l2 = "raise" THEN PdfFailed("LoadError")
    ELSE IF enc = "raise" THEN PdfFailed("EncodeError")
    ELSE [exc |-> "none",
          selected |-> data.template,
          template |-> IF data.template # "BASIC" /\ ~IsPremium(user, l1)
                       THEN "BASIC" ELSE data.template,
          watermark |-> ~IsPremium(user, l2)]

EncodeResults == {"ok", "raise"}

\* generate_resume on the dictionary ud: the answer, the dictionary after it
\* and the document that was sent.
GenerateResume(ud, user, l1, l2, enc) ==
    IF user \notin DOMAIN ud
    THEN [outcome |-> "NotFound", ud |-> ud, render |-> NoRender]
    ELSE LET pdf == GeneratePdfBytes(ud[user], user, l1, l2, enc)
         IN  IF pdf.exc # "none"
             THEN [outcome |-> "RenderError", ud |-> ud, render |-> NoRender]
             ELSE [outcome |-> "Sent", ud |-> Remove(ud, user),
                   render |-> [selected |-> pdf.selected, template |-> pdf.template,
                               watermark |-> pdf.watermark]]

WizardOp(op, user, outcome, exc, render) ==
    [op |-> op, user |-> user, args |-> <<>>, load |-> "none", save |-> "none",
     outcome |-> outcome, exc |-> exc, rec |-> "none", events |-> <<>>,
     alerts |-> Alerts(op, exc), render |-> render]

StoreFrame ==
    UNCHANGED <<dbKeys, dbUsers, attempts, lastAttempt, now, minted, redemptions,
                monitor>>

\* /newresume or the new_resume button outside a conversation start one
\* (entry points of conv_handler).  Inside a conversation the command is
\* matched by no handler; the button falls through to button_handler, which
\* calls new_resume and drops the state it returns.
NewResume(user, via) ==
    /\ conv[user] # END => via = "button"
    /\ user_data' = Put(user_data, user, NewEntry)
    /\ conv' = IF conv[user] = END THEN [conv EXCEPT ![user] = States[1]] ELSE conv
    /\ last' = WizardOp("new_resume", user, "Started", "none", NoRender)
    /\ UNCHANGED keyboards
    /\ StoreFrame

\* get_name, get_contact, get_education, get_experience, get_skills: the
\* handler of the text message in state States[i].
GetField(user, i) ==
    /\ conv[user] = States[i]
    /\ IF user \in DOMAIN user_data
       THEN /\ user_data' = Put(user_data, user, SetField(user_data[user]))
            /\ conv' = [conv EXCEPT ![user] = States[i + 1]]
            /\ last' = WizardOp("get_field", user, States[i + 1], "none", NoRender)
       ELSE /\ UNCHANGED <<user_data, conv>>
            /\ last' = WizardOp("get_field", user, "Error", "KeyError", NoRender)
    /\ UNCHANGED keyboards
    /\ StoreFrame

GetName == \E user \in WizardUsers : GetField(user, 1)

GetContact == \E user \in WizardUsers : GetField(user, 2)

GetEducation == \E user \in WizardUsers : GetField(user, 3)

GetExperience == \E user \in WizardUsers : GetField(user, 4)

GetSkills == \E user \in WizardUsers : GetField(user, 5)

\* The previews sent to a premium user are rendered from example data and
\* change nothing; they are followed by the template keyboard.
GetSummaryStages(user, l0, l1, l2, enc) ==
    IF user \notin DOMAIN user_data
    THEN [outcome |-> "Error", exc |-> "KeyError", ud |-> user_data,
          conv |-> conv[user], keyboard |-> FALSE, render |-> NoRender]
    ELSE LET set == Put(user_data, user, SetField(user_data[user]))
             basic == Put(user_data, user,
                          [SetField(user_data[user]) EXCEPT !.template = "BASIC"])
             g == GenerateResume(basic, user, l1, l2, enc)
         IN  IF l0 = "raise"
             THEN [outcome |-> "Error", exc |-> "LoadError", ud |-> set,
                   conv |-> conv[user], keyboard |-> FALSE, render |-> NoRender]
             ELSE IF IsPremium(user, l0)
             THEN [outcome |-> "Templates", exc |-> "none", ud |-> set,
                   conv |-> END, keyboard |-> TRUE, render |-> NoRender]
             ELSE [outcome |-> g.outcome, exc |-> "none", ud |-> g.ud,
                   conv |-> END, keyboard |-> FALSE, render |-> g.render]

GetSummaryOf(user, l0, l1, l2, enc) ==
    /\ conv[user] = States[Len(States)]
    /\ \E r \in {GetSummaryStages(user, l0, l1, l2, enc)} :
         /\ user_data' = r.ud
         /\ conv' = [conv EXCEPT ![user] = r.conv]
         /\ keyboards' = IF r.keyboard THEN keyboards \cup {user} ELSE keyboards
         /\ last' = WizardOp("get_summary", user, r.outcome, r.exc, r.render)
    /\ StoreFrame

GetSummary ==
    \E user \in WizardUsers, l0 \in LoadResults, l1 \in LoadResults,
       l2 \in LoadResults, enc \in EncodeResults :
          GetSummaryOf(user, l0, l1, l2, enc)

\* /cancel is a fallback of conv_handler: it is handled only inside a
\* conversation.
CancelOf(user) ==
    /\ conv[user] # END
    /\ user_data' = IF user \in DOMAIN user_data THEN Remove(user_data, user)
                    ELSE user_data
    /\ conv' = [conv EXCEPT ![user] = END]
    /\ last' = WizardOp("cancel", user, "Cancelled", "none", NoRender)
    /\ UNCHANGED keyboards
    /\ StoreFrame

Cancel == \E user \in WizardUsers : CancelOf(user)

\* A template_* button pressed by a user who was sent the keyboard.  The
\* callback query is matched by no handler of conv_handler, whatever the
\* state of the conversation, and reaches button_handler, which leaves the
\* conversation as it is.
ButtonHandler(user, template, l1, l2, enc) ==
    /\ user \in keyboards
    /\ \E ud \in {Put(user_data, user,
                      IF user \in DOMAIN user_data
                      THEN [user_data[user] EXCEPT !.template = template]
                      ELSE ButtonEntry(template))} :
         \E g \in {GenerateResume(ud, user, l1, l2, enc)} :
           /\ user_data' = g.ud
           /\ last' = WizardOp("template", user, g.outcome, "none", g.render)
    /\ UNCHANGED <<conv, keyboards>>
    /\ StoreFrame

TemplateButton ==
    \E user \in WizardUsers, template \in Templates, l1 \in LoadResults,
       l2 \in LoadResults, enc \in EncodeResults :
          ButtonHandler(user, template, l1, l2, enc)

Start == \E user \in WizardUsers, via \in {"command", "button"} : NewResume(user, via)

NextWizard ==
    \/ Start
    \/ GetName
    \/ GetContact
    \/ GetEducation
    \/ GetExperience
    \/ GetSkills
    \/ GetSummary
    \/ Cancel
    \/ TemplateButton
    \/ AdvanceTime

\* The wizard in a run that starts on the grants written by earlier runs:
\* alice is entitled until the midnight that follows the start, the
\* administrator throughout.
SpecWizard == InitStored /\ [][NextWizard]_vars

\* ------------------------------------------------------------ properties
\* A step of redeem_key / generate_key: the clock stands still and the
\* record of the latest request is the record of this step.
RedeemStep == now' = now /\ last'.op = "redeem"

GenerateStep == now' = now /\ last'.op = "generate"

\* The step is a redemption request carrying exactly one token.
RedeemOf(k) == RedeemStep /\ last'.args = <<k>>

\* C1: one-time use.  Once a redemption of token T has committed, T is gone
\* from the outstanding-keys map for good and is never redeemed a second
\* time; every later redemption of T by a non-blocked subject that gets an
\* answer from the store is rejected with KeyNotFound.
C1_OneTimeUse ==
    [][\A k \in consumed :
         /\ k \notin DOMAIN dbKeys'
         /\ redemptions'[k] = 1
         /\ (RedeemOf(k) /\ ~CheckRateLimit(last'.user) /\ last'.load # "raise")
                => last'.outcome = "KeyNotFound"]_vars

C1_Witness ==
    /\ last.op = "redeem"
    /\ last.outcome = "KeyNotFound"
    /\ last.load = "ok"
    /\ Len(last.args) = 1
    /\ last.args[1] \in consumed

\* C2: two simultaneous redemptions of the same valid, unexpired token by two
\* different non-blocked subjects are two consecutive runs of redeem_key, in
\* either order.  With the store answering both, the first run commits and
\* the second observes KeyNotFound and creates no grant; whatever the store
\* does, no token is ever turned into more than one grant.
C2_SingleWinner ==
    [][/\ \A k \in KeyIds : redemptions'[k] <= 1
       /\ \A k \in DOMAIN dbKeys :
             (/\ RedeemOf(k)
              /\ last'.load = "ok" /\ last'.save # "raise"
              /\ ~CheckRateLimit(last'.user)
              /\ dbKeys[k] > Today)
                 => (last'.outcome = "Success" /\ redemptions'[k] = 1)
       /\ (/\ last.op = "redeem" /\ last.outcome = "Success"
           /\ RedeemOf(last.args[1])
           /\ last'.user # last.user
           /\ last'.load = "ok"
           /\ ~CheckRateLimit(last'.user))
              => (last'.outcome = "KeyNotFound" /\ dbUsers' = dbUsers)]_vars

C2_Witness ==
    /\ last.op = "redeem"
    /\ last.outcome = "KeyNotFound"
    /\ last.load = "ok"
    /\ Len(last.args) = 1
    /\ last.args[1] \in consumed
    /\ DOMAIN dbUsers # {}
    /\ last.user \notin DOMAIN dbUsers

Commits == {"Success", "Generated"}

\* C3: lost-update prevention.  Every commit starts from the current durable
\* state: it changes only its own entry, so what earlier commits wrote (keys
\* issued, grants made, keys consumed) is still in the store after it.
C3_NoLostUpdate ==
    [][(now' = now /\ last'.outcome \in Commits) =>
         /\ \A k \in DOMAIN dbKeys :
               \/ last'.op = "redeem" /\ last'.args = <<k>>
               \/ k \in DOMAIN dbKeys' /\ dbKeys'[k] = dbKeys[k]
         /\ \A u \in DOMAIN dbUsers :
               \/ last'.op = "redeem" /\ last'.user = u
               \/ u \in DOMAIN dbUsers' /\ dbUsers'[u] = dbUsers[u]
         /\ \A k \in consumed : k \notin DOMAIN dbKeys']_vars

\* C4: a redemption request is rejected as RateLimited exactly when the
\* subject has MaxAttempts or more recorded failures and less than the
\* cooldown has elapsed since the last recorded one.
C4_BlockedUntilCooldown ==
    [][RedeemStep =>
         (last'.outcome = "RateLimited"
            <=> (/\ attempts[last'.user] >= MaxAttempts
                 /\ now - lastAttempt[last'.user] < Cooldown))]_vars

\* C5: a request of a blocked subject is answered with the rate-limit
\* rejection, records no attempt, reads and writes no snapshot and leaves the
\* outstanding keys and the grants as they were.
C5_BlockedRequestFrame ==
    [][(RedeemStep /\ CheckRateLimit(last'.user)) =>
         /\ last'.outcome = "RateLimited"
         /\ last'.load = "none"
         /\ last'.save = "none"
         /\ UNCHANGED <<attempts, lastAttempt, dbKeys, dbUsers>>]_vars

\* C6: when save_db fails at the commit of an otherwise valid redemption the
\* request ends in an error, the rate-limit record, the grants and the
\* outstanding keys are unchanged and the token is still outstanding; the
\* same request repeated right after, with the store working, succeeds.
C6_CommitFailureRetryable ==
    [][/\ (RedeemStep /\ last'.save = "raise") =>
             /\ last'.outcome = "Error"
             /\ UNCHANGED <<attempts, lastAttempt, dbKeys, dbUsers, redemptions>>
             /\ last'.args[1] \in DOMAIN dbKeys'
       /\ (/\ last.op = "redeem" /\ last.save = "raise"
           /\ RedeemStep
           /\ last'.user = last.user /\ last'.args = last.args
           /\ last'.load = "ok" /\ last'.save # "raise")
              => last'.outcome = "Success"]_vars

C6_Witness ==
    /\ last.op = "redeem"
    /\ last.save = "raise"
    /\ last.outcome = "Error"
    /\ attempts[last.user] > 0
    /\ last.args[1] \in DOMAIN dbKeys

\* C7: a request whose snapshot read fails ends in a storage error: a
\* redemption records no attempt and changes nothing, an issuance writes
\* nothing.
C7_ReadFailureSurfaced ==
    [][/\ (RedeemStep /\ last'.load \in {"empty", "raise"}) =>
             /\ last'.outcome = "Error"
             /\ UNCHANGED <<attempts, lastAttempt, dbKeys, dbUsers>>
       /\ (GenerateStep /\ last'.load \in {"empty", "raise"}) =>
             /\ last'.outcome = "Failed"
             /\ UNCHANGED <<dbKeys, dbUsers>>]_vars

ExpectedOutcome(user, key) ==
    IF CheckRateLimit(user) THEN "RateLimited"
    ELSE IF ~ValidateKeyFormat(key) THEN "InvalidFormat"
    ELSE IF ~VerifyKeySignature(key) THEN "InvalidSignature"
    ELSE IF key \notin DOMAIN dbKeys THEN "KeyNotFound"
    ELSE IF ~(dbKeys[key] > Today) THEN "KeyExpired"
    ELSE "Success"

\* C8: with the store working, the answer to a one-token redemption request
\* is the rejection of the first failing stage in the order rate, format,
\* signature, existence, expiry, and success when all five pass.
C8_StageOrder ==
    [][\A k \in Requestable :
         (RedeemOf(k) /\ last'.load \in {"none", "ok"} /\ last'.save # "raise")
            => last'.outcome = ExpectedOutcome(last'.user, k)]_vars

\* C9 as stated: every redemption request for an outstanding token whose
\* expiresOn lies before today is answered KeyExpired (store working).
C9_AsStated ==
    [][\A k \in DOMAIN dbKeys :
         (RedeemOf(k) /\ last'.load \in {"none", "ok"} /\ dbKeys[k] < Today)
            => last'.outcome = "KeyExpired"]_vars

\* C9 as amended: every redemption request of a non-blocked subject for an
\* outstanding token whose expiresOn lies before today is answered
\* KeyExpired (store working); every outstanding token carries a valid
\* signature, so the signature stage never answers first.
C9_ExpiredRejected ==
    [][\A k \in DOMAIN dbKeys :
         /\ VerifyKeySignature(k)
         /\ (/\ RedeemOf(k)
             /\ ~CheckRateLimit(last'.user)
             /\ last'.load \in {"none", "ok"}
             /\ dbKeys[k] < Today)
                => last'.outcome = "KeyExpired"]_vars

C9_Witness ==
    /\ last.op = "redeem"
    /\ last.outcome = "KeyExpired"
    /\ last.args[1] \in DOMAIN dbKeys
    /\ dbKeys[last.args[1]] < Today

\* C10: a redemption request of a non-blocked subject for a token that
\* fails the format check is answered InvalidFormat without a read of the
\* snapshot.
C10_NoStoreQuery ==
    [][\A k \in Requestable :
         (RedeemOf(k) /\ ~ValidateKeyFormat(k) /\ ~CheckRateLimit(last'.user))
            => (last'.outcome = "InvalidFormat" /\ last'.load = "none")]_vars

ValidationEvent ==
    [InvalidFormat |-> "invalid_key_format",
     InvalidSignature |-> "invalid_key_signature",
     KeyNotFound |-> "invalid_key_attempt",
     KeyExpired |-> "expired_key"]

\* C11: a redemption rejected at the format, signature, existence or expiry
\* stage records exactly one failed attempt and appends exactly the one audit
\* event of the matching kind; every request that passed the rate check and
\* was rejected without a storage failure appends an audit event.
C11_RejectionAudited ==
    [][(RedeemStep /\ ~CheckRateLimit(last'.user)) =>
         /\ last'.outcome \in DOMAIN ValidationEvent =>
               /\ attempts'[last'.user] = attempts[last'.user] + 1
               /\ last'.events = <<ValidationEvent[last'.outcome]>>
         /\ (last'.outcome # "Success" /\ last'.exc = "none") =>
               Len(last'.events) = 1]_vars

\* The grants map holds a grant for the subject whose expiresOn is after
\* today.
Entitled(user) == user \in DOMAIN dbUsers /\ dbUsers[user] > Today

\* C12: with the store readable, is_premium(subject) is true exactly when the
\* grants map holds a grant for the subject with expiresOn > today, before
\* and after every step; the passage of time alone flips the answer and
\* writes nothing to the grants map.
C12_EntitledIffUnexpired ==
    [][/\ \A u \in Subjects : IsPremium(u, "ok") <=> Entitled(u)
       /\ \A u \in Subjects : IsPremium(u, "ok")' <=> Entitled(u)'
       /\ now' # now => dbUsers' = dbUsers]_vars

C12_Witness ==
    /\ "alice" \in DOMAIN dbUsers
    /\ dbUsers["alice"] = Today
    /\ now > StartTick
    /\ ~IsPremium("alice", "ok")

\* C13: a key generation requested by a subject other than ADMIN_ID is
\* answered NotAuthorized, mints no key, reads and writes no snapshot and
\* leaves the outstanding keys and the grants as they were.
C13_NonAdminRejected ==
    [][(GenerateStep /\ last'.user # ADMIN_ID) =>
         /\ last'.outcome = "NotAuthorized"
         /\ last'.load = "none"
         /\ last'.save = "none"
         /\ minted' = minted
         /\ UNCHANGED <<dbKeys, dbUsers>>]_vars

C13_Witness ==
    /\ last.op = "generate"
    /\ last.user # ADMIN_ID
    /\ last.outcome = "NotAuthorized"
    /\ DOMAIN dbKeys # {}

\* C14: with the store working, a non-blocked subject that redeems an
\* outstanding key before it expires (expiresOn > today) succeeds; after the
\* step the token is absent from the outstanding keys, the subject's grant
\* equals the key's expiresOn and is_premium(subject) is true; a redemption
\* of the same token right after it is answered KeyNotFound.
C14_IssueRedeemEntitled ==
    [][/\ \A k \in DOMAIN dbKeys :
            (/\ RedeemOf(k)
             /\ ~CheckRateLimit(last'.user)
             /\ last'.load = "ok" /\ last'.save # "raise"
             /\ dbKeys[k] > Today)
               => /\ last'.outcome = "Success"
                  /\ k \notin DOMAIN dbKeys'
                  /\ last'.user \in DOMAIN dbUsers'
                  /\ dbUsers'[last'.user] = dbKeys[k]
                  /\ \A u \in Subjects : last'.user = u => IsPremium(u, "ok")'
       /\ (/\ last.op = "redeem" /\ last.outcome = "Success"
           /\ RedeemOf(last.args[1])
           /\ ~CheckRateLimit(last'.user)
           /\ last'.load = "ok")
              => last'.outcome = "KeyNotFound"]_vars

C14_Witness ==
    /\ last.op = "redeem"
    /\ last.outcome = "Success"
    /\ last.args[1] \notin DOMAIN dbKeys
    /\ dbUsers[last.user] >= Today + DefaultDuration - 1
    /\ IsPremium(last.user, "ok")

\* C15: a redemption never deletes a grant and never moves the expiry of a
\* grant to an earlier date.
C15_GrantOnlyExtended ==
    [][RedeemStep =>
         \A u \in DOMAIN dbUsers :
            /\ u \in DOMAIN dbUsers'
            /\ dbUsers'[u] >= dbUsers[u]]_vars

\* C16: a successful redemption leaves the subject's attempt count at zero
\* and the subject not blocked; a step raises a count by at most one and a
\* subject is blocked only with MaxAttempts or more counted failures, so
\* after a success it takes MaxAttempts new failures to be blocked again.
C16_SuccessResetsAttempts ==
    [][/\ (RedeemStep /\ last'.outcome = "Success") =>
             \A u \in Subjects :
                last'.user = u => (attempts'[u] = 0 /\ ~CheckRateLimit(u)')
       /\ \A u \in Subjects :
             /\ attempts'[u] <= attempts[u] + 1
             /\ CheckRateLimit(u)' => attempts'[u] >= MaxAttempts]_vars

C16_Witness ==
    /\ last.op = "redeem"
    /\ last.outcome = "Success"
    /\ attempts[last.user] = 0
    /\ lastAttempt[last.user] > StartTick

\* C17: a successful key generation uses the supplied number of days, 30
\* when no digit string is supplied, and at most 365; the stored expiry of
\* the new key is the day of issue plus that duration, never more than 365
\* days ahead.
C17_DurationDefaultAndClamp ==
    [][(GenerateStep /\ last'.outcome = "Generated") =>
         LET supplied == IF last'.args = <<>> THEN DefaultDuration ELSE last'.args[1]
         IN  /\ last'.duration = Min(supplied, MaxDuration)
             /\ minted' \in DOMAIN dbKeys'
             /\ dbKeys'[minted'] = Today + Min(supplied, MaxDuration)
             /\ dbKeys'[minted'] <= Today + MaxDuration]_vars

C17_Witness ==
    /\ last.op = "generate"
    /\ last.outcome = "Generated"
    /\ last.args = <<MaxDuration + 1>>
    /\ last.duration = MaxDuration
    /\ dbKeys[minted] = Today + MaxDuration

\* C18: a redemption whose save_db fails appends exactly one audit event, of
\* kind storage_failure.
C18_StorageFailureAudited ==
    [][(RedeemStep /\ last'.save = "raise") =>
         last'.events = <<"storage_failure">>]_vars

\* C19: every request whose save_db fails, redemption or key generation,
\* ends in an error for the requester and sends a message to the
\* administrator's chat.
C19_WriteFailureAlerted ==
    [][(now' = now /\ last'.save = "raise") =>
         /\ last'.outcome \in {"Error", "Failed"}
         /\ Len(last'.alerts) >= 1]_vars

Logged(e, events) == \E i \in 1..Len(events) : events[i] = e

\* C21: a redemption request of a non-blocked subject with no argument or
\* with more than one has the effect of a format failure: one failed attempt
\* is recorded, exactly one audit event is appended and it is of kind
\* invalid_key_format, and nothing is written to the store.
C21_ArgCountIsFormatFailure ==
    [][(RedeemStep /\ Len(last'.args) # 1 /\ ~CheckRateLimit(last'.user)) =>
         /\ attempts'[last'.user] = attempts[last'.user] + 1
         /\ last'.events = <<"invalid_key_format">>
         /\ UNCHANGED <<dbKeys, dbUsers>>]_vars

\* C22: the rate-limit record is kept per subject.  A redemption request of
\* one subject (failed, successful or blocked) leaves the attempt count and
\* the last-attempt time of every other subject as they were and does not
\* change whether another subject is blocked.
C22_RateLimitPerSubject ==
    [][RedeemStep =>
         \A u \in Subjects :
            u # last'.user =>
               /\ attempts'[u] = attempts[u]
               /\ lastAttempt'[u] = lastAttempt[u]
               /\ CheckRateLimit(u)' <=> CheckRateLimit(u)]_vars

C22_Witness ==
    /\ last.op = "redeem"
    /\ last.rec = "fail"
    /\ \E u \in Subjects :
          /\ u # last.user
          /\ CheckRateLimit(u)
          /\ attempts[last.user] = 1
          /\ attempts[u] >= MaxAttempts

Rejections ==
    {"Usage", "InvalidFormat", "InvalidSignature", "KeyNotFound",
     "CorruptExpiry", "KeyExpired"}

\* C26: a redemption request that is rejected (the subject is blocked, or
\* the argument count, the format, the signature, the existence, the stored
\* date or the expiry check fails) writes nothing: the outstanding keys and
\* the grants are as before.  In particular an expired key that is presented
\* stays in the outstanding keys.
C26_RejectionWritesNothing ==
    [][(RedeemStep /\ (CheckRateLimit(last'.user) \/ last'.outcome \in Rejections)) =>
         /\ last'.save = "none"
         /\ UNCHANGED <<dbKeys, dbUsers, redemptions>>
         /\ last'.outcome = "KeyExpired" =>
               /\ last'.args[1] \in DOMAIN dbKeys'
               /\ dbKeys'[last'.args[1]] = dbKeys[last'.args[1]]]_vars

C26_Witness ==
    /\ last.op = "redeem"
    /\ last.outcome = "KeyExpired"
    /\ last.save = "none"
    /\ last.args[1] \in DOMAIN dbKeys
    /\ dbKeys[last.args[1]] <= Today

\* C27: a successful key generation adds exactly one new token to the
\* outstanding keys and leaves every key that was outstanding and every
\* grant as it was, whatever the snapshot read before the write returned.
C27_IssuanceAddsOneKey ==
    [][(GenerateStep /\ last'.outcome = "Generated") =>
         /\ minted' \notin DOMAIN dbKeys
         /\ DOMAIN dbKeys' = DOMAIN dbKeys \cup {minted'}
         /\ \A k \in DOMAIN dbKeys : dbKeys'[k] = dbKeys[k]
         /\ dbUsers' = dbUsers]_vars

\* C28: the audit event key_redeemed and the reset of the subject's attempt
\* count belong to a redemption whose save_db succeeded, the audit event
\* key_generated to a key generation whose save_db succeeded.  A request
\* whose save_db failed appends neither event and leaves the rate-limit
\* record as it was.
C28_EffectsFollowCommit ==
    [][/\ RedeemStep =>
            /\ (Logged("key_redeemed", last'.events) \/ last'.rec = "success") =>
                  /\ last'.save = "ok"
                  /\ last'.args[1] \notin DOMAIN dbKeys'
                  /\ last'.user \in DOMAIN dbUsers'
            /\ last'.save = "raise" =>
                  /\ ~Logged("key_redeemed", last'.events)
                  /\ UNCHANGED <<attempts, lastAttempt>>
       /\ GenerateStep =>
            /\ Logged("key_generated", last'.events) =>
                  /\ last'.save = "ok"
                  /\ minted' \in DOMAIN dbKeys'
            /\ last'.save = "raise" =>
                  /\ ~Logged("key_generated", last'.events)
                  /\ UNCHANGED <<dbKeys, dbUsers>>]_vars

C28_Witness ==
    /\ last.op = "redeem"
    /\ last.outcome = "Success"
    /\ Logged("key_redeemed", last.events)
    /\ last.rec = "success"
    /\ attempts[last.user] = 0
    /\ lastAttempt[last.user] > StartTick
    /\ last.args[1] \notin DOMAIN dbKeys

SweepStep == now' = now /\ last'.op = "sweep"

\* C23: every cycle of security_monitor selects exactly the subjects whose
\* attempt count is greater than twice the maximum and, when there is at
\* least one, sends exactly one alert that lists them all.
C23_SweepSelectsAndAlerts ==
    [][SweepStep =>
         /\ last'.selected = {u \in Subjects : attempts[u] > 2 * MaxAttempts}
         /\ Len(last'.alerts) = IF last'.selected = {} THEN 0 ELSE 1]_vars

\* C24: security_monitor never ends.  A cycle that fails is followed by the
\* short sleep and then by another cycle, and cycles are run again and again
\* for as long as the process runs.
C24_SweeperRecurs ==
    /\ [][(SweepStep /\ last'.exc # "none") =>
            (monitor'.pc = "sleep" /\ monitor'.delay = SweepBackoff)]_vars
    /\ (monitor.pc = "sleep") ~> (monitor.pc = "run")
    /\ []<>(monitor.pc = "run")
    /\ []<>(monitor.pc = "sleep")

C24_Witness ==
    /\ last.op = "sweep"
    /\ last.exc # "none"
    /\ monitor.pc = "sleep"
    /\ monitor.delay = SweepBackoff
    /\ now > StartTick

\* C29: no permanent lockout.  A request of a blocked subject records no
\* attempt and does not move the time of the last attempt, so while the
\* clock of the run can still advance every block ends; and a subject with
\* MaxAttempts or more counted failures that is no longer blocked redeems a
\* valid key with success when the store works.
C29_NoPermanentLockout ==
    /\ [][(RedeemStep /\ CheckRateLimit(last'.user)) =>
            (last'.rec = "none" /\ UNCHANGED <<attempts, lastAttempt>>)]_vars
    /\ \A u \in Subjects :
          (CheckRateLimit(u) /\ now < StartTick + MaxElapsed) ~> ~CheckRateLimit(u)
    /\ [][\A k \in DOMAIN dbKeys :
            (/\ RedeemOf(k)
             /\ attempts[last'.user] >= MaxAttempts
             /\ ~CheckRateLimit(last'.user)
             /\ last'.load = "ok" /\ last'.save # "raise"
             /\ dbKeys[k] > Today)
               => last'.outcome = "Success"]_vars

C29_Witness ==
    /\ last.op = "redeem"
    /\ last.user = "alice"
    /\ last.outcome = "Success"
    /\ now > StartTick
    /\ IsPremium("alice", "ok")

\* A step that sent a rendered resume to the user.
RenderStep ==
    /\ now' = now
    /\ last'.op \in {"get_summary", "template"}
    /\ last'.outcome = "Sent"

\* C25: the rendering is gated by the entitlement.  A resume rendered for a
\* subject that is not entitled uses the BASIC template, whatever template
\* the entry names (a template_* button included), and carries the
\* watermark; one rendered for an entitled subject uses the template the
\* entry names and carries no watermark.
C25_RenderGatedByEntitlement ==
    [][RenderStep =>
         \A u \in Subjects :
            last'.user = u =>
               IF Entitled(u)
               THEN /\ last'.render.template = last'.render.selected
                    /\ ~last'.render.watermark
               ELSE /\ last'.render.template = "BASIC"
                    /\ last'.render.watermark]_vars

\* C30: whenever the conversation of a user is in one of the wizard states
\* NAME .. SUMMARY, user_data holds an entry for that user, so that no get_*
\* handler reads a missing entry.
C30_WizardEntryPresent ==
    \A u \in Subjects : conv[u] # END => u \in DOMAIN user_data
====
